---- MODULE Spec2Model ----
(***************************************************************************)
(* Model of the MagicPod / TestRail CI scripts:                            *)
(*   run_magicpod.py            start a batch run, poll it, resolve the    *)
(*                              TestRail run id, report each test result   *)
(*   testrail_prepare.py        create a test plan and save it             *)
(*   download_magicpod_client.py download and unpack the API client        *)
(*                                                                         *)
(* JSON values are tagged records [jtype |-> type, jval |-> payload]:             *)
(*   null, num (integer), str (string), arr (sequence of JSON values),     *)
(*   obj (function from key strings to JSON values).                       *)
(***************************************************************************)
EXTENDS Integers, Sequences, FiniteSets, TLC

VARIABLES
    script,            \* which script this process runs
    env,               \* the process environment: variable name -> value
    pc,                \* position of the script
    http,              \* number of HTTP requests issued so far
    raised_at,         \* where the fatal exception was raised ("" if none)
    exc,               \* the exception type that ended the script ("" if none)
    batch_run_number,  \* run_magicpod: batch_run["batch_run_number"]
    wait_time,         \* run_magicpod: wait_time
    last_status,       \* run_magicpod: last_status
    result,            \* run_magicpod: result (last value bound by line 159)
    fetches,           \* number of get_test_result calls made
    last_fetch,        \* outcome kind of the most recent get_test_result call
    saw_error,         \* some get_test_result call of this run raised
    term_snap,         \* the snapshot returned by the first terminal fetch
    timed_out,         \* the timeout message of line 180 was printed
    status_log,        \* status lines of line 164: whether the last fetch
                       \* printed one, and the status on the latest line
    seen_status,       \* the status read by the latest fetch that returned one
    dump_len,          \* length of the document dump printed by line 105
    testplan,          \* run_magicpod: testplan (parsed plan file)
    run_id,            \* run_magicpod: outcome of get_run_id_from_testplan
    test_results,      \* run_magicpod: test_results
    idx,               \* run_magicpod: number of test results handled so far
    success_count,     \* run_magicpod: success_count
    error_count,       \* run_magicpod: error_count
    posted,            \* add_result_for_case requests accepted by TestRail
    sent,              \* add_result_for_case requests sent, accepted or not
    handled,           \* indexes of test_results handled so far, in order
    key_order,         \* the keys of test_results in the order of the answer,
                       \* when test_results is an object
    prep,              \* testrail_prepare: local state
    dl                 \* download_magicpod_client: local state

vars == <<script, env, pc, http, raised_at, exc, batch_run_number, wait_time,
          last_status, result, fetches, last_fetch, saw_error, term_snap,
          timed_out, status_log, seen_status, dump_len, testplan, run_id,
          test_results, idx, success_count, error_count, posted, sent,
          handled, key_order, prep, dl>>

pollVars == <<wait_time, last_status, result, fetches, last_fetch, saw_error,
              term_snap, timed_out, status_log, seen_status>>
resolveVars == <<run_id, dump_len>>
reportVars == <<test_results, idx, success_count, error_count, posted, sent,
                handled, key_order>>

----------------------------------------------------------------------------
(* Bounds of the model *)

MaxEntries == 2     \* longest 'entries' array of a plan document
MaxRuns == 2        \* longest 'runs' array of an entry
MaxResults == 2     \* longest 'test_results' array of a snapshot
MaxDumpItems == 340 \* longest array of a document whose dump is measured

----------------------------------------------------------------------------
(* JSON values *)

Null == [jtype |-> "null", jval |-> 0]
Num(n) == [jtype |-> "num", jval |-> n]
Str(s) == [jtype |-> "str", jval |-> s]
Arr(s) == [jtype |-> "arr", jval |-> s]
Obj(f) == [jtype |-> "obj", jval |-> f]

\* Python truth value of a parsed JSON value
Truthy(j) ==
    CASE j.jtype = "null" -> FALSE
      [] j.jtype = "num" -> j.jval # 0
      [] j.jtype = "str" -> j.jval # ""
      [] j.jtype = "arr" -> Len(j.jval) > 0
      [] j.jtype = "obj" -> DOMAIN j.jval # {}

\* isinstance(j, dict)
IsDict(j) == j.jtype = "obj"

\* 'k' in j, for a dict j
HasKey(j, k) == k \in DOMAIN j.jval

Return(val) == [kind |-> "return", value |-> val, error |-> ""]
Raise(e) == [kind |-> "raise", value |-> Null, error |-> e]
NoMatch == [kind |-> "nomatch", value |-> Null, error |-> ""]

\* j[k] for a string key k: the member of an object, KeyError when the object
\* has no such key, TypeError for a value that is not an object
Subscript(j, k) ==
    IF j.jtype = "obj"
    THEN IF k \in DOMAIN j.jval THEN Return(j.jval[k]) ELSE Raise("KeyError")
    ELSE Raise("TypeError")

----------------------------------------------------------------------------
(* get_run_id_from_testplan *)

\* first['id'] for first = entry['runs'][0]
RunIdOf(first) ==
    IF IsDict(first)
    THEN IF HasKey(first, "id") THEN Return(first.jval.id) ELSE Raise("KeyError")
    ELSE Raise("TypeError")

\* entry['runs'][0]['id'] for a truthy runs value
FirstRunId(runs) ==
    CASE runs.jtype = "arr" -> RunIdOf(runs.jval[1])
      [] runs.jtype = "obj" -> Raise("KeyError")
      [] OTHER -> Raise("TypeError")

RECURSIVE ScanEntries(_, _)
\* the for loop over testplan['entries'], from position i of the list es
ScanEntries(es, i) ==
    IF i > Len(es) THEN NoMatch
    ELSE LET entry == es[i] IN
         IF ~IsDict(entry) THEN Raise("AttributeError")
         ELSE IF HasKey(entry, "runs") /\ Truthy(entry.jval.runs)
              THEN FirstRunId(entry.jval.runs)
              ELSE ScanEntries(es, i + 1)

\* the 'entries' branch: a run id, an exception, or fall through
EntriesShape(plan) ==
    IF HasKey(plan, "entries") /\ Truthy(plan.jval.entries)
    THEN LET es == plan.jval.entries IN
         CASE es.jtype = "arr" -> ScanEntries(es.jval, 1)
           [] es.jtype \in {"str", "obj"} -> Raise("AttributeError")
           [] OTHER -> Raise("TypeError")
    ELSE NoMatch

\* the 'testplan itself is a run' branch
FlatShape(plan) ==
    IF HasKey(plan, "id") /\ HasKey(plan, "name")
    THEN Return(plan.jval.id)
    ELSE NoMatch

get_run_id_from_testplan(plan) ==
    IF IsDict(plan)
    THEN LET e == EntriesShape(plan) IN
         IF e.kind # "nomatch" THEN e
         ELSE LET f == FlatShape(plan) IN
              IF f.kind # "nomatch" THEN f ELSE Raise("ValueError")
    ELSE Raise("ValueError")

----------------------------------------------------------------------------
(* The diagnostic dump of get_run_id_from_testplan, lines 103-105 *)

dump_limit == 1000

RECURSIVE NumLen(_)
\* len(str(n)) of an integer
NumLen(n) ==
    IF n < 0 THEN 1 + NumLen(0 - n)
    ELSE IF n < 10 THEN 1 ELSE 1 + NumLen(n \div 10)

RECURSIVE RangeSum(_, _, _)
\* f[lo] + ... + f[hi], summed by halves
RangeSum(f, lo, hi) ==
    IF lo > hi THEN 0
    ELSE IF lo = hi THEN f[lo]
    ELSE LET mid == (lo + hi) \div 2
         IN  RangeSum(f, lo, mid) + RangeSum(f, mid + 1, hi)

\* f[1] + ... + f[n]
SeqSum(f, n) == RangeSum(f, 1, n)

RECURSIVE SetSum(_, _)
\* the sum of f[k] over the keys k of K
SetSum(f, K) ==
    IF K = {} THEN 0
    ELSE LET k == CHOOSE x \in K : TRUE IN f[k] + SetSum(f, K \ {k})

RECURSIVE CharsOf(_)
\* the characters of a string, in order
CharsOf(s) == IF s = "" THEN <<>> ELSE <<Head(s)>> \o CharsOf(Tail(s))

\* U+0060, which cannot stand in a string without a closing single quote
Backtick == Head("`'")

\* the characters of the strings of the model are those of Latin-1, U+0000 to
\* U+00FF; the printable ones of ASCII, U+0020 to U+007E
AsciiPrintable ==
    {" ", "!", "\"", "#", "$", "%", "&", "'", "(", ")", "*", "+", ",", "-",
     ".", "/", "0", "1", "2", "3", "4", "5", "6", "7", "8", "9", ":", ";",
     "<", "=", ">", "?", "@", "A", "B", "C", "D", "E", "F", "G", "H", "I",
     "J", "K", "L", "M", "N", "O", "P", "Q", "R", "S", "T", "U", "V", "W",
     "X", "Y", "Z", "[", "\\", "]", "^", "_", Backtick, "a", "b", "c", "d", "e",
     "f", "g", "h", "i", "j", "k", "l", "m", "n", "o", "p", "q", "r", "s",
     "t", "u", "v", "w", "x", "y", "z", "{", "|", "}", "~"}

\* the printable characters above ASCII, U+00A1 to U+00FF without the soft
\* hyphen U+00AD
Latin1Printable ==
    {"¡", "¢", "£", "¤", "¥", "¦", "§", "¨", "©", "ª", "«", "¬", "®", "¯",
     "°", "±", "²", "³", "´", "µ", "¶", "·", "¸", "¹", "º", "»", "¼", "½",
     "¾", "¿", "À", "Á", "Â", "Ã", "Ä", "Å", "Æ", "Ç", "È", "É", "Ê", "Ë",
     "Ì", "Í", "Î", "Ï", "Ð", "Ñ", "Ò", "Ó", "Ô", "Õ", "Ö", "×", "Ø", "Ù",
     "Ú", "Û", "Ü", "Ý", "Þ", "ß", "à", "á", "â", "ã", "ä", "å", "æ", "ç",
     "è", "é", "ê", "ë", "ì", "í", "î", "ï", "ð", "ñ", "ò", "ó", "ô", "õ",
     "ö", "÷", "ø", "ù", "ú", "û", "ü", "ý", "þ", "ÿ"}

\* the control characters U+0008 and U+000B, and the characters U+0085 and
\* U+00A0
Backspace == ""
VerticalTab == ""
NextLine == ""
NoBreakSpace == " "

\* the number of items of seq that are in S
Count(seq, S) == Len(SelectSeq(seq, LAMBDA c : c \in S))

\* the characters repr writes for one character of a string, quotes apart: a
\* backslash, a tab, a line feed and a carriage return take two, a printable
\* character one, every other character four (\xNN)
ReprCharLen(c) ==
    IF c \in {"\\", "\n", "\r", "\t"} THEN 2
    ELSE IF c \in AsciiPrintable \cup Latin1Printable THEN 1
    ELSE 4

\* the characters json.dumps writes for one character of a string: a double
\* quote, a backslash, a backspace, a tab, a line feed, a form feed and a
\* carriage return take two, another printable character of ASCII one, every
\* other character six (\uNNNN)
JsonCharLen(c) ==
    IF c \in {"\"", "\\", Backspace, "\t", "\n", "\f", "\r"} THEN 2
    ELSE IF c \in AsciiPrintable THEN 1
    ELSE 6

\* len(repr(s)) of a string: in single quotes, or in double quotes when it
\* holds a single quote and no double quote; a single quote inside single
\* quotes takes two characters
ReprStrLen(s) ==
    LET cs == CharsOf(s) IN
    2 + SeqSum([i \in 1..Len(cs) |-> ReprCharLen(cs[i])], Len(cs))
      + IF Count(cs, {"\""}) > 0 THEN Count(cs, {"'"}) ELSE 0

\* len(json.dumps(s)) of a string, in double quotes
JsonStrLen(s) ==
    LET cs == CharsOf(s) IN
    2 + SeqSum([i \in 1..Len(cs) |-> JsonCharLen(cs[i])], Len(cs))

RECURSIVE ReprLen(_)
\* len(repr(j)): the parsed document on one line, strings quoted, items
\* separated by ', ' and keys followed by ': '
ReprLen(j) ==
    CASE j.jtype = "null" -> 4
      [] j.jtype = "num" -> NumLen(j.jval)
      [] j.jtype = "str" -> ReprStrLen(j.jval)
      [] j.jtype = "arr" ->
            IF Len(j.jval) = 0 THEN 2
            ELSE 2 + SeqSum([i \in 1..Len(j.jval) |-> ReprLen(j.jval[i])],
                            Len(j.jval))
                   + 2 * (Len(j.jval) - 1)
      [] j.jtype = "obj" ->
            IF DOMAIN j.jval = {} THEN 2
            ELSE 2 + SetSum([k \in DOMAIN j.jval |->
                                ReprStrLen(k) + 2 + ReprLen(j.jval[k])],
                            DOMAIN j.jval)
                   + 2 * (Cardinality(DOMAIN j.jval) - 1)

\* len(str(j)): the repr, except that a document which is a string is not
\* quoted
StrLen(j) == IF j.jtype = "str" THEN Len(j.jval) ELSE ReprLen(j)

RECURSIVE DumpsLen(_, _)
\* len(json.dumps(j, indent=2)) of a value printed at nesting depth d: every
\* item of a non-empty array or object is on a line of its own, indented by
\* 2 * (d + 1) blanks, and the closing bracket is indented by 2 * d
DumpsLen(j, d) ==
    CASE j.jtype = "null" -> 4
      [] j.jtype = "num" -> NumLen(j.jval)
      [] j.jtype = "str" -> JsonStrLen(j.jval)
      [] j.jtype = "arr" ->
            IF Len(j.jval) = 0 THEN 2
            ELSE 1 + SeqSum([i \in 1..Len(j.jval) |->
                                1 + 2 * (d + 1) + DumpsLen(j.jval[i], d + 1)],
                            Len(j.jval))
                   + (Len(j.jval) - 1) + 1 + 2 * d + 1
      [] j.jtype = "obj" ->
            IF DOMAIN j.jval = {} THEN 2
            ELSE 1 + SetSum([k \in DOMAIN j.jval |->
                                1 + 2 * (d + 1) + JsonStrLen(k) + 2
                                  + DumpsLen(j.jval[k], d + 1)],
                            DOMAIN j.jval)
                   + (Cardinality(DOMAIN j.jval) - 1) + 1 + 2 * d + 1

Min(a, b) == IF a < b THEN a ELSE b

\* line 105: the length of the text printed,
\* json.dumps(..)[:1000] + "..." if len(str(testplan)) > 1000 else json.dumps(..)
DumpLength(plan) ==
    IF StrLen(plan) > dump_limit
    THEN Min(DumpsLen(plan, 0), dump_limit) + 3
    ELSE DumpsLen(plan, 0)

----------------------------------------------------------------------------
(* The plan documents the resolver is applied to *)

RunIds == {41, 42}
PlanId == Num(7)

RunVals == {Obj([id |-> Num(n)]) : n \in RunIds}
             \cup {Obj([name |-> Str("run")])}

SeqsUpTo(S, n) == UNION {[1..k -> S] : k \in 0..n}

\* the values of an entry's 'runs': arrays of at most nr runs, null, or a
\* value of another JSON type
RunsVals(nr) == {Arr(s) : s \in SeqsUpTo(RunVals, nr)}
                  \cup {Null, Num(5), Str("runs")}

\* an entry: an object without 'runs', an object with 'runs', or a number
EntryVals(nr) == {Obj([name |-> Str("entry")])}
                   \cup {Obj([runs |-> r]) : r \in RunsVals(nr)}
                   \cup {Num(5)}

\* the values of 'entries': arrays of at most ne entries, or a scalar
EntriesVals(ne, nr) == {Arr(s) : s \in SeqsUpTo(EntryVals(nr), ne)}
                         \cup {Null, Num(5), Str("entries")}

PlanObj(K, es) ==
    Obj([k \in K |-> CASE k = "entries" -> es
                       [] k = "id" -> PlanId
                       [] k = "name" -> Str("plan")
                       [] OTHER -> Str("bar")])

\* the documents with at most ne entries of at most nr runs each
Docs(ne, nr) ==
        {PlanObj(K \cup {"entries"}, es) :
            K \in SUBSET {"id", "name"}, es \in EntriesVals(ne, nr)}
          \cup {PlanObj(K, Null) : K \in SUBSET {"id", "name", "foo"}}
          \cup {PlanObj({"entries", "id", "name"}, Arr(<<Obj([runs |-> r])>>)) :
                  r \in {Arr(<<Num(5)>>), Num(5), Str("runs"),
                         Obj([id |-> Num(41)])}}
          \cup {Arr(<<>>), Arr(<<Obj([runs |-> Arr(<<Obj([id |-> Num(41)])>>)])>>),
                Num(5), Null, Str("plan")}

----------------------------------------------------------------------------
(* The process environment *)

Unset == [set |-> FALSE, val |-> <<>>]
Val(chars) == [set |-> TRUE, val |-> chars]

\* mutant of Missing: only an unset variable counts, an empty one passes
MissingUnsetOnly(e, var) == ~e[var].set

\* not os.getenv(var)
Missing(e, var) == ~e[var].set \/ e[var].val = <<>>

RunRequiredVars == <<"MAGICPOD_API_TOKEN", "MAGICPOD_ORGANIZATION_NAME",
                     "MAGICPOD_PROJECT_NAME", "MAGICPOD_TEST_SETTING_ID",
                     "TESTRAIL_URL", "TESTRAIL_USER", "TESTRAIL_PASSWORD">>

PrepRequiredVars == <<"TESTRAIL_URL", "TESTRAIL_USER", "TESTRAIL_PASSWORD",
                      "TESTRAIL_PROJECT_ID">>

DlRequiredVars == <<"MAGICPOD_API_TOKEN">>

Range(s) == {s[k] : k \in DOMAIN s}

\* missing_vars = [var for var in required_vars if not os.getenv(var)]
MissingVars(e, required) == SelectSeq(required, LAMBDA var : Missing(e, var))

Digits == {"0", "1", "2", "3", "4", "5", "6", "7", "8", "9"}

DigitVal(c) ==
    CASE c = "0" -> 0 [] c = "1" -> 1 [] c = "2" -> 2 [] c = "3" -> 3
      [] c = "4" -> 4 [] c = "5" -> 5 [] c = "6" -> 6 [] c = "7" -> 7
      [] c = "8" -> 8 [] c = "9" -> 9

\* the characters int() skips around a number: blank, tab, line feed,
\* vertical tab, form feed, carriage return, next line and no-break space
Whitespace == {" ", "\t", "\n", VerticalTab, "\f", "\r", NextLine,
               NoBreakSpace}

RECURSIVE LStrip(_)
\* int() skips the whitespace before the number
LStrip(s) == IF s # <<>> /\ Head(s) \in Whitespace THEN LStrip(Tail(s)) ELSE s

RECURSIVE RStrip(_)
\* int() skips the whitespace after the number
RStrip(s) ==
    IF s # <<>> /\ s[Len(s)] \in Whitespace
    THEN RStrip(SubSeq(s, 1, Len(s) - 1))
    ELSE s

\* the digits of an integer literal: digits with single underscores between
\* them, none at either end
DigitGroups(s) ==
    /\ s # <<>>
    /\ Range(s) \subseteq Digits \cup {"_"}
    /\ Head(s) \in Digits
    /\ s[Len(s)] \in Digits
    /\ \A k \in 1..(Len(s) - 1) : ~(s[k] = "_" /\ s[k + 1] = "_")

RECURSIVE DigitsVal(_, _)
DigitsVal(s, acc) ==
    IF s = <<>> THEN acc ELSE DigitsVal(Tail(s), acc * 10 + DigitVal(Head(s)))

\* sys.get_int_max_str_digits() of the interpreter: int() refuses a number
\* of more digits
int_max_str_digits == 4300

\* int(s) for a string s of Latin-1 characters: surrounding whitespace is
\* dropped, one sign is allowed, then digits, which single underscores may
\* separate, at most int_max_str_digits of them
ParseInt(s) ==
    LET body == RStrip(LStrip(s))
        signed == body # <<>> /\ Head(body) \in {"+", "-"}
        digs == IF signed THEN Tail(body) ELSE body
        plain == SelectSeq(digs, LAMBDA c : c # "_")
    IN IF DigitGroups(digs) /\ Len(plain) <= int_max_str_digits
       THEN [ok |-> TRUE,
             value |-> IF signed /\ Head(body) = "-"
                       THEN 0 - DigitsVal(plain, 0) ELSE DigitsVal(plain, 0)]
       ELSE [ok |-> FALSE, value |-> 0]

\* the number written with n ones
Ones(n) == [i \in 1..n |-> "1"]

EnvVals == {Unset, Val(<<>>), Val(<<"x">>)}

ProjectIdVals == {Unset, Val(<<>>), Val(<<"7">>), Val(<<"1", "2">>),
                  Val(<<" ", "7", " ">>), Val(<<"-", "3">>), Val(<<"x">>),
                  Val(<<"1", "x">>), Val(<<"-">>), Val(<<" ">>),
                  Val(<<"7", "\n">>), Val(<<"\t", "7">>), Val(<<" ", "7", "\n">>),
                  Val(<<"1", "_", "0">>), Val(<<"_", "7">>), Val(<<"7", "_">>),
                  Val(<<"1", "_", "_", "0">>), Val(<<"1", " ", "0">>),
                  Val(<<"+", "0", "7">>), Val(<<"-", " ", "3">>),
                  Val(<<VerticalTab, "7">>), Val(<<"7", VerticalTab>>),
                  Val(<<"7", NoBreakSpace>>), Val(<<NextLine, "7", "\r">>),
                  Val(<<Backspace, "7">>), Val(Ones(int_max_str_digits + 1))}

Scripts == {"run_magicpod", "testrail_prepare", "download_magicpod_client"}

EnvsFor(s) ==
    CASE s = "run_magicpod" -> [Range(RunRequiredVars) -> EnvVals]
      [] s = "testrail_prepare" ->
            {e \in [Range(PrepRequiredVars) -> EnvVals \cup ProjectIdVals] :
                /\ e["TESTRAIL_PROJECT_ID"] \in ProjectIdVals
                /\ \A v \in Range(PrepRequiredVars) \ {"TESTRAIL_PROJECT_ID"} :
                      e[v] \in EnvVals}
      [] s = "download_magicpod_client" -> [Range(DlRequiredVars) -> EnvVals]

----------------------------------------------------------------------------
(* run_magicpod.py: constants and inputs *)

max_wait_time == 1800
poll_interval == 30

Unbound == [jtype |-> "unbound", jval |-> 0]

TerminalStatuses == {Str("succeeded"), Str("failed"), Str("aborted")}

\* the values of 'status' in an answer: the statuses of MagicPod, and values
\* of other JSON types
StatusVals == TerminalStatuses
                \cup {Str("running"), Null, Arr(<<Str("succeeded")>>)}

\* dict.get(k, default)
Get(j, k, default) == IF HasKey(j, k) THEN j.jval[k] ELSE default

ItemVals == {Obj([test_case_id |-> Num(11), status |-> Str("succeeded")]),
             Obj([status |-> Str("failed")]),
             Obj([test_case_id |-> Num(12), status |-> Str("succeeded"),
                  elapsed_time |-> Str("3")]),
             Num(5)}

\* the values of 'test_results' in an answer: arrays of items, and values of
\* other JSON types
ResultsVals == {Arr(s) : s \in SeqsUpTo(ItemVals, MaxResults)}
                 \cup {Null, Str("ab"), Obj([a |-> Num(1)]),
                       Obj([b |-> Num(1), a |-> Num(2)])}

\* the orders in which an answer can list the keys of v: a parsed object
\* keeps the order of the document, which the value of the model does not
\* record
KeyOrders(v) ==
    IF v.jtype = "obj"
    THEN {o \in [1..Cardinality(DOMAIN v.jval) -> DOMAIN v.jval] :
             \A i, j \in DOMAIN o : i # j => o[i] # o[j]}
    ELSE {<<>>}

\* len(v) is defined: lines 200 and 255
HasLen(v) == v.jtype \in {"arr", "str", "obj"}

\* what the for loop of line 205 iterates over: the items of an array, the
\* characters of a string, the keys of an object in the order of the document
ItemsOf(v, order) ==
    CASE v.jtype = "arr" -> v.jval
      [] v.jtype = "str" -> [i \in 1..Len(v.jval) |-> Str(CharsOf(v.jval)[i])]
      [] v.jtype = "obj" -> [i \in 1..Len(order) |-> Str(order[i])]
      [] OTHER -> <<>>

SnapObj(K, st, rs) ==
    Obj([k \in K |-> IF k = "status" THEN st ELSE rs])

\* the 'test_results' of the answers that are not 'succeeded'
FewResultsVals == {Arr(<<>>), Arr(<<Obj([status |-> Str("failed")])>>)}

\* what MagicPod can answer to GET batch-run/{n}/: a snapshot object, with or
\* without 'status' and 'test_results', or a body that is not an object
Snapshots == {SnapObj({"status", "test_results"}, Str("succeeded"), rs) :
                 rs \in ResultsVals}
               \cup {SnapObj({"status", "test_results"}, st, rs) :
                        st \in StatusVals \ {Str("succeeded")},
                        rs \in FewResultsVals}
               \cup {SnapObj({"status"}, st, Null) : st \in StatusVals}
               \cup {SnapObj({"test_results"}, Null, rs) : rs \in FewResultsVals}
               \cup {Arr(<<>>)}

BatchNumbers == {101, 102}

\* response.json() on a body the JSON decoder refuses (run_magicpod.py lines
\* 34, 46 and 71, testrail_prepare.py lines 32 and 49): text that is not JSON
\* is a RequestException or, with an older requests library, a plain
\* ValueError; a number of more than int_max_str_digits digits is a
\* ValueError; a document nested deeper than the interpreter's recursion limit
\* is a RecursionError
BodyErrors == {"RequestException", "ValueError", "RecursionError"}

\* what MagicPod can answer to POST batch-run/: an object with the number of
\* the run, an object without it, or a body that is not an object
StartBodies == {Obj([batch_run_number |-> Num(n)]) : n \in BatchNumbers}
                 \cup {Obj([detail |-> Str("plain")]), Arr(<<>>), Null}

\* get_test_result: the parsed body, or an exception
\* (requests failure, raise_for_status, response.json())
FetchOutcomes == {Return(j) : j \in Snapshots} \cup {Raise("RequestException")}

\* the plan files of the run script
PlanDocs == {PlanObj({"entries"},
                 Arr(<<Obj([runs |-> Arr(<<>>)]),
                       Obj([runs |-> Arr(<<Obj([id |-> Num(42)])>>)])>>)),
             PlanObj({"id", "name"}, Null),
             PlanObj({"foo"}, Null),
             PlanObj({"entries", "id", "name"},
                 Arr(<<Obj([runs |-> Arr(<<Obj([name |-> Str("run")])>>)])>>))}

----------------------------------------------------------------------------
(* Initial state: a script starts with some environment *)

PrepInit == [project_id |-> 0, suite_id |-> Unbound, saved |-> FALSE,
             plan |-> Unbound, slept |-> 0, http_status |-> 0]
DlInit == [url |-> 1, minimal |-> FALSE, download_successful |-> FALSE]

\* no status line has been printed
NoStatusLine == [printed |-> FALSE, line |-> Unbound]

Init ==
    /\ script \in Scripts
    /\ env \in EnvsFor(script)
    /\ pc = "validate"
    /\ http = 0
    /\ raised_at = ""
    /\ exc = ""
    /\ batch_run_number = 0
    /\ wait_time = 0
    /\ last_status = Null
    /\ result = Unbound
    /\ fetches = 0
    /\ last_fetch = "none"
    /\ saw_error = FALSE
    /\ term_snap = Unbound
    /\ timed_out = FALSE
    /\ status_log = NoStatusLine
    /\ seen_status = Unbound
    /\ dump_len = 0
    /\ testplan = Unbound
    /\ run_id = NoMatch
    /\ test_results = Unbound
    /\ idx = 0
    /\ success_count = 0
    /\ error_count = 0
    /\ posted = <<>>
    /\ sent = <<>>
    /\ handled = <<>>
    /\ key_order = <<>>
    /\ prep = PrepInit
    /\ dl = DlInit

\* an exception leaves the script: pc, raised_at and exc of the next state
Fail(where, e) ==
    /\ pc' = "raised"
    /\ raised_at' = where
    /\ exc' = e

----------------------------------------------------------------------------
(* run_magicpod.py: run_magicpod_tests *)

RunConfigOK(e) == MissingVars(e, RunRequiredVars) = <<>>

\* lines 116-138: validate the environment, build the API wrappers
RunValidate ==
    /\ script = "run_magicpod"
    /\ pc = "validate"
    /\ IF RunConfigOK(env)
       THEN pc' = "start_job" /\ UNCHANGED <<raised_at, exc>>
       ELSE Fail("config", "ValueError")
    /\ UNCHANGED <<script, env, http, batch_run_number, pollVars, testplan,
                   resolveVars, reportVars, prep, dl>>

\* lines 141-155: POST batch-run/, read batch_run_number, set up the poll loop
StartJob ==
    /\ script = "run_magicpod"
    /\ pc = "start_job"
    /\ http' = http + 1
    /\ \/ \E body \in StartBodies :
             LET number == Subscript(body, "batch_run_number") IN
             IF number.kind = "return"
             THEN /\ batch_run_number' = number.value.jval
                  /\ wait_time' = 0
                  /\ last_status' = Null
                  /\ pc' = "poll"
                  /\ UNCHANGED <<raised_at, exc>>
             ELSE \* line 146 raised
                  /\ Fail("start_job", number.error)
                  /\ UNCHANGED <<batch_run_number, wait_time, last_status>>
       \/ \* run_test raised: the request failed, raise_for_status, or
          \* response.json()
          /\ \E e \in BodyErrors : Fail("start_job", e)
          /\ UNCHANGED <<batch_run_number, wait_time, last_status>>
    /\ UNCHANGED <<script, env, result, fetches, last_fetch, saw_error,
                   term_snap, timed_out, status_log, seen_status, testplan,
                   resolveVars, reportVars, prep, dl>>

\* mutant of TimeoutMessage: off by one, the deadline itself is not a timeout
TimeoutMessageStrict(w) == w > max_wait_time

\* line 179: the timeout message is printed iff wait_time >= max_wait_time
TimeoutMessage(w) == w >= max_wait_time

\* mutant of IsTerminal: 'aborted' is not treated as a final status
IsTerminalNoAborted(status) == status \in {Str("succeeded"), Str("failed")}

\* lines 167-169: the loop is left on these statuses
IsTerminal(status) == status \in TerminalStatuses

\* mutant of NextWait: a poll that is not final does not advance wait_time
NextWaitStuck(w) == w

\* lines 171-172: sleep, then wait_time += poll_interval
NextWait(w) == w + poll_interval

\* mutant of RetryWait: the except branch forgets to advance wait_time
RetryWaitStuck(w) == w

\* lines 176-177: the same in the except branch
RetryWait(w) == w + poll_interval

\* line 163: status != last_status
StatusChanged(status, last) == status # last

\* bookkeeping, not program state: what a get_test_result call came back with
OutcomeKind(out) ==
    IF out.kind = "raise" THEN "error"
    ELSE IF ~IsDict(out.value) THEN "badshape"
    ELSE IF /\ HasKey(out.value, "status")
            /\ out.value.jval.status \in TerminalStatuses
         THEN "terminal"
         ELSE "nonterminal"

\* bookkeeping: the status the call delivered, if it delivered one
SeenStatus(seen, out) ==
    IF OutcomeKind(out) \in {"terminal", "nonterminal"}
    THEN IF HasKey(out.value, "status") THEN out.value.jval.status
         ELSE Str("unknown")
    ELSE seen

\* bookkeeping: the first snapshot fetched whose status is one of succeeded,
\* failed, aborted
FirstTerminal(seen, out) ==
    IF seen = Unbound /\ OutcomeKind(out) = "terminal" THEN out.value ELSE seen

\* lines 157-177 (and 179-181 after a break): one iteration of the poll loop
PollFetch ==
    /\ script = "run_magicpod"
    /\ pc = "poll"
    /\ wait_time < max_wait_time
    /\ http' = http + 1
    /\ fetches' = fetches + 1
    /\ \E out \in FetchOutcomes :
          /\ term_snap' = FirstTerminal(term_snap, out)
          /\ last_fetch' = OutcomeKind(out)
          /\ saw_error' = (saw_error \/ OutcomeKind(out) \in {"error", "badshape"})
          /\ seen_status' = SeenStatus(seen_status, out)
          /\ IF out.kind = "raise"
             THEN \* get_test_result raised: lines 174-177
                  /\ wait_time' = RetryWait(wait_time)
                  /\ pc' = "poll"
                  /\ status_log' = [status_log EXCEPT !.printed = FALSE]
                  /\ UNCHANGED <<result, last_status, timed_out>>
             ELSE /\ result' = out.value
                  /\ IF ~IsDict(out.value)
                     THEN \* result.get raised AttributeError: lines 174-177
                          /\ wait_time' = RetryWait(wait_time)
                          /\ pc' = "poll"
                          /\ status_log' = [status_log EXCEPT !.printed = FALSE]
                          /\ UNCHANGED <<last_status, timed_out>>
                     ELSE LET status == Get(out.value, "status", Str("unknown")) IN
                          /\ IF StatusChanged(status, last_status)
                             THEN \* lines 164-165
                                  /\ status_log' = [printed |-> TRUE,
                                                    line |-> status]
                                  /\ last_status' = status
                             ELSE /\ status_log' = [status_log EXCEPT
                                                       !.printed = FALSE]
                                  /\ UNCHANGED last_status
                          /\ IF IsTerminal(status)
                             THEN \* break, then the check of line 179
                                  /\ timed_out' = TimeoutMessage(wait_time)
                                  /\ pc' = "load_plan"
                                  /\ UNCHANGED wait_time
                             ELSE /\ wait_time' = NextWait(wait_time)
                                  /\ pc' = "poll"
                                  /\ UNCHANGED timed_out
    /\ UNCHANGED <<script, env, raised_at, exc, batch_run_number, testplan,
                   resolveVars, reportVars, prep, dl>>

\* lines 157 and 179-181: the loop condition fails, the timeout is reported
PollTimeout ==
    /\ script = "run_magicpod"
    /\ pc = "poll"
    /\ ~(wait_time < max_wait_time)
    /\ timed_out' = TimeoutMessage(wait_time)
    /\ pc' = "load_plan"
    /\ UNCHANGED <<script, env, http, raised_at, exc, batch_run_number,
                   wait_time, last_status, result, fetches, last_fetch,
                   saw_error, term_snap, status_log, seen_status, testplan,
                   resolveVars, reportVars, prep, dl>>

\* the exceptions of lines 187-192: no such file (line 188), a directory, an
\* unreadable file or another failure of the file system (line 190), bytes
\* that are not UTF-8, text that is not JSON, a number of more than
\* int_max_str_digits digits (ValueError) and a document nested deeper than
\* the interpreter's recursion limit (line 191)
PlanFileErrors == {"FileNotFoundError", "IsADirectoryError", "PermissionError",
                   "OSError", "UnicodeDecodeError", "JSONDecodeError",
                   "ValueError", "RecursionError"}

\* lines 184-192: read the plan file
LoadPlan ==
    /\ script = "run_magicpod"
    /\ pc = "load_plan"
    /\ \/ /\ \E doc \in PlanDocs : testplan' = doc
          /\ pc' = "resolve"
          /\ UNCHANGED <<raised_at, exc>>
       \/ /\ \E e \in PlanFileErrors : Fail("load_plan", e)
          /\ UNCHANGED testplan
    /\ UNCHANGED <<script, env, http, batch_run_number, pollVars, resolveVars,
                   reportVars, prep, dl>>

\* mutant of Resolve: the failure of the resolver is swallowed and the run
\* goes on to report
ResolveIgnoresFailure ==
    /\ script = "run_magicpod"
    /\ pc = "resolve"
    /\ run_id' = get_run_id_from_testplan(testplan)
    /\ dump_len' = IF run_id'.kind = "raise" /\ run_id'.error = "ValueError"
                   THEN DumpLength(testplan)
                   ELSE 0
    /\ pc' = "read_results"
    /\ UNCHANGED <<script, env, http, raised_at, exc, batch_run_number,
                   pollVars, testplan, reportVars, prep, dl>>

\* lines 195-196: run_id = get_run_id_from_testplan(testplan); the dump of
\* lines 104-105 is printed on the way to the ValueError of line 107
Resolve ==
    /\ script = "run_magicpod"
    /\ pc = "resolve"
    /\ run_id' = get_run_id_from_testplan(testplan)
    /\ dump_len' = IF run_id'.kind = "raise" /\ run_id'.error = "ValueError"
                   THEN DumpLength(testplan)
                   ELSE 0
    /\ IF run_id'.kind = "return"
       THEN pc' = "read_results" /\ UNCHANGED <<raised_at, exc>>
       ELSE Fail("resolve", run_id'.error)
    /\ UNCHANGED <<script, env, http, batch_run_number, pollVars, testplan,
                   reportVars, prep, dl>>

\* lines 199-203: test_results = result.get("test_results", []), len(), counters
ReadResults ==
    /\ script = "run_magicpod"
    /\ pc = "read_results"
    /\ IF result = Unbound
       THEN Fail("read_results", "UnboundLocalError")
            /\ UNCHANGED <<test_results, key_order, idx, success_count,
                           error_count>>
       ELSE IF ~IsDict(result)
       THEN Fail("read_results", "AttributeError")
            /\ UNCHANGED <<test_results, key_order, idx, success_count,
                           error_count>>
       ELSE LET rs == Get(result, "test_results", Arr(<<>>)) IN
            /\ test_results' = rs
            /\ key_order' \in KeyOrders(rs)
            /\ IF HasLen(rs)
               THEN /\ idx' = 0
                    /\ success_count' = 0
                    /\ error_count' = 0
                    /\ pc' = "report"
                    /\ UNCHANGED <<raised_at, exc>>
               ELSE Fail("read_results", "TypeError")
                    /\ UNCHANGED <<idx, success_count, error_count>>
    /\ UNCHANGED <<script, env, http, batch_run_number, pollVars, testplan,
                   resolveVars, posted, sent, handled, prep, dl>>

\* lines 208-212: the case id of the item at 0-based position i
CaseId(item, i) ==
    LET case_id == Get(item, "test_case_id", Null) IN
    IF Truthy(case_id) THEN case_id ELSE Num(i + 1)

\* line 216
StatusId(item) ==
    IF Get(item, "status", Str("unknown")) = Str("succeeded") THEN 1 ELSE 5

\* line 77, reached from line 244: 'elapsed and elapsed > 0' raises TypeError
\* for an elapsed_time that is truthy and not a number
ElapsedRaises(item) ==
    LET elapsed == Get(item, "elapsed_time", Num(0)) IN
    Truthy(elapsed) /\ elapsed.jtype # "num"

\* lines 208-245: the add_result_for_case request built for the item at
\* 0-based position i: run id and case id in the URL, status id and the
\* comment with its 'Batch Run' line in the body
Request(item, i) ==
    [run_id |-> run_id.value, case_id |-> CaseId(item, i),
     status_id |-> StatusId(item), batch_run |-> batch_run_number]

\* mutant of ReportItem: no try/except around the item, a failure propagates
ReportItemAborts ==
    /\ script = "run_magicpod"
    /\ pc = "report"
    /\ idx < Len(ItemsOf(test_results, key_order))
    /\ LET item == ItemsOf(test_results, key_order)[idx + 1] IN
       IF ~IsDict(item) \/ ElapsedRaises(item)
       THEN /\ Fail("report", IF IsDict(item) THEN "TypeError"
                                              ELSE "AttributeError")
            /\ UNCHANGED <<success_count, error_count, posted, sent, http, idx,
                           handled>>
       ELSE /\ http' = http + 1
            /\ sent' = Append(sent, Request(item, idx))
            /\ \/ /\ success_count' = success_count + 1
                  /\ posted' = Append(posted, Request(item, idx))
                  /\ idx' = idx + 1
                  /\ handled' = Append(handled, idx + 1)
                  /\ pc' = "report"
                  /\ UNCHANGED <<error_count, raised_at, exc>>
               \/ /\ Fail("report", "HTTPError")
                  /\ UNCHANGED <<success_count, error_count, posted, idx, handled>>
    /\ UNCHANGED <<script, env, batch_run_number, pollVars, testplan, resolveVars,
                   test_results, key_order, prep, dl>>

\* lines 205-250: one iteration of the reporting loop
ReportItem ==
    /\ script = "run_magicpod"
    /\ pc = "report"
    /\ idx < Len(ItemsOf(test_results, key_order))
    /\ LET item == ItemsOf(test_results, key_order)[idx + 1] IN
       IF ~IsDict(item) \/ ElapsedRaises(item)
       THEN \* test_result.get raised, or add_result_for_case raised before
            \* the request: lines 247-250
            /\ error_count' = error_count + 1
            /\ UNCHANGED <<success_count, posted, sent, http>>
       ELSE /\ http' = http + 1
            /\ sent' = Append(sent, Request(item, idx))
            /\ \/ /\ success_count' = success_count + 1
                  /\ posted' = Append(posted, Request(item, idx))
                  /\ UNCHANGED error_count
               \/ \* add_result_for_case raised: lines 247-250
                  /\ error_count' = error_count + 1
                  /\ UNCHANGED <<success_count, posted>>
    /\ idx' = idx + 1
    /\ handled' = Append(handled, idx + 1)
    /\ pc' = "report"
    /\ UNCHANGED <<script, env, raised_at, exc, batch_run_number, pollVars,
                   testplan, resolveVars, test_results, key_order, prep, dl>>

\* lines 252-262: the loop is exhausted, the summary is printed
Summary ==
    /\ script = "run_magicpod"
    /\ pc = "report"
    /\ idx = Len(ItemsOf(test_results, key_order))
    /\ pc' = "done"
    /\ UNCHANGED <<script, env, http, raised_at, exc, batch_run_number,
                   pollVars, testplan, resolveVars, reportVars, prep, dl>>

----------------------------------------------------------------------------
(* testrail_prepare.py: prepare_testplan *)

PrepConfigOK(e) ==
    /\ MissingVars(e, PrepRequiredVars) = <<>>
    /\ ParseInt(e["TESTRAIL_PROJECT_ID"].val).ok

\* lines 67-88: validate the environment, parse the project id, build the client
PrepValidate ==
    /\ script = "testrail_prepare"
    /\ pc = "validate"
    /\ IF PrepConfigOK(env)
       THEN /\ prep' = [prep EXCEPT !.project_id =
                            ParseInt(env["TESTRAIL_PROJECT_ID"].val).value]
            /\ pc' = "get_project"
            /\ UNCHANGED <<raised_at, exc>>
       ELSE Fail("config", "ValueError") /\ UNCHANGED prep
    /\ UNCHANGED <<script, env, http, batch_run_number, pollVars, testplan,
                   resolveVars, reportVars, dl>>

\* the HTTP status codes of a failed TestRail request; 0 is a failure without
\* a response (connection error, timeout)
ErrorStatuses == {0, 400, 401, 403, 429, 500}

rate_limit_sleep == 30

\* lines 161-187: the handlers of the outer try; every one re-raises
PrepFail(where, status) ==
    /\ Fail(where, IF status = 0 THEN "RequestException" ELSE "HTTPError")
    /\ prep' = [prep EXCEPT !.http_status = status,
                            !.slept = IF status = 429 THEN rate_limit_sleep
                                      ELSE 0]

\* lines 183-187: an exception that is not an HTTPError is re-raised as it is
PrepRaise(where, e) == Fail(where, e) /\ UNCHANGED prep

\* the bodies TestRail answers to get_project
ProjectResponses == {Obj([id |-> Num(7), name |-> Str("plain")]),
                     Obj([id |-> Num(7)]), Arr(<<>>), Null}

\* lines 92-98: GET get_project/{project_id}, print project['name']
PrepGetProject ==
    /\ script = "testrail_prepare"
    /\ pc = "get_project"
    /\ http' = http + 1
    /\ \/ \E project \in ProjectResponses :
             LET name == Subscript(project, "name") IN
             IF name.kind = "return"
             THEN pc' = "get_suites" /\ UNCHANGED <<raised_at, exc, prep>>
             ELSE PrepRaise("get_project", name.error)
       \/ \E st \in ErrorStatuses : PrepFail("get_project", st)
       \/ \E e \in BodyErrors : PrepRaise("get_project", e)
    /\ UNCHANGED <<script, env, batch_run_number, pollVars, testplan, resolveVars,
                   reportVars, dl>>

\* the bodies TestRail answers to get_suites
SuitesResponses ==
    {Arr(<<>>),
     Arr(<<Obj([id |-> Num(1), name |-> Str("plain")])>>),
     Arr(<<Obj([name |-> Str("plain")])>>),
     Arr(<<Obj([id |-> Num(1)])>>),
     Arr(<<Num(5)>>),
     Obj([suites |-> Arr(<<Obj([id |-> Num(1), name |-> Str("plain")])>>)]),
     Str("plain"),
     Null}

\* lines 104-110: len(suites), the test for no suites and suites[0]['id'];
\* the id of the first suite, or the exception
FirstSuite(suites) ==
    IF ~HasLen(suites) THEN Raise("TypeError")
    ELSE IF ~Truthy(suites) THEN Raise("ValueError")
    ELSE IF suites.jtype = "obj" THEN Raise("KeyError")
    ELSE IF suites.jtype = "str" THEN Raise("TypeError")
    ELSE Subscript(suites.jval[1], "id")

\* lines 101-116: GET get_suites/{project_id}, take the first suite; suite_id
\* is bound at line 110, before line 111 reads the name of the suite
PrepGetSuites ==
    /\ script = "testrail_prepare"
    /\ pc = "get_suites"
    /\ http' = http + 1
    /\ \/ \E suites \in SuitesResponses :
             LET suite_id == FirstSuite(suites) IN
             IF suite_id.kind = "return"
             THEN LET suite_name == Subscript(suites.jval[1], "name") IN
                  /\ prep' = [prep EXCEPT !.suite_id = suite_id.value]
                  /\ IF suite_name.kind = "return"
                     THEN pc' = "add_plan" /\ UNCHANGED <<raised_at, exc>>
                     ELSE Fail("get_suites", suite_name.error)
             ELSE PrepRaise("get_suites", suite_id.error)
       \/ \E st \in ErrorStatuses : PrepFail("get_suites", st)
       \/ \E e \in BodyErrors : PrepRaise("get_suites", e)
    /\ UNCHANGED <<script, env, batch_run_number, pollVars, testplan, resolveVars,
                   reportVars, dl>>

\* the bodies TestRail answers to add_plan
PlanResponses ==
    {PlanObj({"entries", "id", "name"},
         Arr(<<Obj([runs |-> Arr(<<Obj([id |-> Num(42)])>>)])>>)),
     PlanObj({"entries", "id", "name"}, Arr(<<>>)),
     PlanObj({"entries", "id", "name"}, Num(5)),
     PlanObj({"id", "name"}, Null),
     Arr(<<>>),
     Null}

\* the exceptions of open at line 147, before anything is written: the
\* directory of the file is missing or the name is empty, the name is a
\* directory, a part of the path is a file, the file may not be written, the
\* name is too long or the file system fails otherwise
PlanOpenErrors == {"FileNotFoundError", "IsADirectoryError",
                   "NotADirectoryError", "PermissionError", "OSError"}

\* the exceptions of lines 148-155 once the file is open: the file system
\* fails while the document is written, or the file read back is not the
\* document written (a device file)
PlanWriteErrors == {"OSError"}
PlanReadBackErrors == {"OSError", "JSONDecodeError"}

\* lines 118-159: POST add_plan/{project_id}, save the response to the plan
\* file, read the file back and count its entries
PrepAddPlan ==
    /\ script = "testrail_prepare"
    /\ pc = "add_plan"
    /\ http' = http + 1
    /\ \/ \E response \in PlanResponses :
             IF ~IsDict(response)
             THEN \* response.get raised: line 137
                  PrepRaise("add_plan", "AttributeError")
             ELSE IF ~HasKey(response, "entries")
                       \/ ~Truthy(response.jval.entries)
             THEN \* line 145
                  PrepRaise("add_plan", "ValueError")
             ELSE \/ \* the file cannot be opened or written: lines 147-148
                     \E e \in PlanOpenErrors \cup PlanWriteErrors :
                        PrepRaise("add_plan", e)
                  \/ \* lines 147-155: saved, then the file is read back
                     /\ prep' = [prep EXCEPT !.saved = TRUE, !.plan = response]
                     /\ \/ IF HasLen(Get(response, "entries", Arr(<<>>)))
                           THEN pc' = "done" /\ UNCHANGED <<raised_at, exc>>
                           ELSE Fail("add_plan", "TypeError")
                        \/ \E e \in PlanReadBackErrors : Fail("add_plan", e)
       \/ \E st \in ErrorStatuses : PrepFail("add_plan", st)
       \/ \E e \in BodyErrors : PrepRaise("add_plan", e)
    /\ UNCHANGED <<script, env, batch_run_number, pollVars, testplan, resolveVars,
                   reportVars, dl>>

----------------------------------------------------------------------------
(* download_magicpod_client.py: download_magicpod_client *)

DlConfigOK(e) == MissingVars(e, DlRequiredVars) = <<>>

NumUrls == 3

\* lines 14-33: read the token, build the headers and the URL list
DlValidate ==
    /\ script = "download_magicpod_client"
    /\ pc = "validate"
    /\ IF DlConfigOK(env)
       THEN pc' = "try_urls" /\ UNCHANGED <<raised_at, exc>>
       ELSE Fail("config", "ValueError")
    /\ UNCHANGED <<script, env, http, batch_run_number, pollVars, testplan,
                   resolveVars, reportVars, prep, dl>>

\* lines 35-64: one iteration of the first loop over possible_urls
DlTryUrl ==
    /\ script = "download_magicpod_client"
    /\ pc = "try_urls"
    /\ http' = http + 1
    /\ \E ok \in BOOLEAN :
          IF ok
          THEN /\ dl' = [dl EXCEPT !.download_successful = TRUE]
               /\ pc' = "extract"
          ELSE IF dl.url < NumUrls
          THEN dl' = [dl EXCEPT !.url = dl.url + 1] /\ pc' = "try_urls"
          ELSE dl' = [dl EXCEPT !.url = 1, !.minimal = TRUE]
               /\ pc' = "try_minimal"
    /\ UNCHANGED <<script, env, raised_at, exc, batch_run_number, pollVars,
                   testplan, resolveVars, reportVars, prep>>

\* lines 66-94: one iteration of the loop with minimal headers
DlTryMinimal ==
    /\ script = "download_magicpod_client"
    /\ pc = "try_minimal"
    /\ http' = http + 1
    /\ \E ok \in BOOLEAN :
          IF ok
          THEN /\ dl' = [dl EXCEPT !.download_successful = TRUE]
               /\ pc' = "extract"
               /\ UNCHANGED <<raised_at, exc>>
          ELSE IF dl.url < NumUrls
          THEN /\ dl' = [dl EXCEPT !.url = dl.url + 1]
               /\ pc' = "try_minimal"
               /\ UNCHANGED <<raised_at, exc>>
          ELSE Fail("download", "RequestException") /\ UNCHANGED dl
    /\ UNCHANGED <<script, env, batch_run_number, pollVars, testplan, resolveVars,
                   reportVars, prep>>

\* the content-length header of the answer: absent, a number, not a number
ContentLengthVals == {Unset, Val(<<"2", "0", "4", "8">>), Val(<<"a", "b", "c">>)}

\* line 113: int(response.headers.get('content-length', 0))
ContentLengthOK(h) == ~h.set \/ ParseInt(h.val).ok

\* the exceptions of lines 113-229 after the header is read: the stream
\* breaks (line 118); the file is not an archive or a member fails its
\* checksum (lines 148-152, re-raised at line 229); the compressed data of a
\* member is damaged (zlib.error, LZMAError, OSError for bzip2) or ends early
\* (EOFError), a member is encrypted (RuntimeError) or compressed by a method
\* zipfile does not know (NotImplementedError), the offset of a member does
\* not fit a file offset (ValueError): line 150; the name of a member is not
\* the UTF-8 its flag announces (line 148) or is empty (line 179); the file
\* system fails, the directory may not be written or is gone, the names of
\* two members clash (lines 118-120, 174-179)
ExtractErrors == {"RequestException", "BadZipFile", "zlib.error", "LZMAError",
                  "EOFError", "RuntimeError", "NotImplementedError",
                  "ValueError", "UnicodeDecodeError", "IndexError", "OSError",
                  "FileNotFoundError", "PermissionError", "NotADirectoryError",
                  "IsADirectoryError"}

\* the exceptions of line 109, before the header is read: no temporary file
\* can be created
TempFileErrors == {"OSError", "FileNotFoundError", "PermissionError"}

\* lines 96-234: store the body, validate and extract the archive
DlExtract ==
    /\ script = "download_magicpod_client"
    /\ pc = "extract"
    /\ \/ \E e \in TempFileErrors : Fail("extract", e)
       \/ \E h \in ContentLengthVals :
             IF ~ContentLengthOK(h)
             THEN Fail("extract", "ValueError")
             ELSE \/ pc' = "done" /\ UNCHANGED <<raised_at, exc>>
                  \/ \E e \in ExtractErrors : Fail("extract", e)
    /\ UNCHANGED <<script, env, http, batch_run_number, pollVars, testplan,
                   resolveVars, reportVars, prep, dl>>

----------------------------------------------------------------------------
(* Specifications *)

Next ==
    \/ RunValidate
    \/ StartJob
    \/ PollFetch
    \/ PollTimeout
    \/ LoadPlan
    \/ Resolve
    \/ ReadResults
    \/ ReportItem
    \/ Summary
    \/ PrepValidate
    \/ PrepGetProject
    \/ PrepGetSuites
    \/ PrepAddPlan
    \/ DlValidate
    \/ DlTryUrl
    \/ DlTryMinimal
    \/ DlExtract

Spec == Init /\ [][Next]_vars

\* get_run_id_from_testplan applied to every document of Docs: the run script
\* after a first poll that succeeded at once, with the plan file holding doc
FirstSnap == SnapObj({"status", "test_results"}, Str("succeeded"), Arr(<<>>))

\* the run script about to resolve the run id of one of the documents docs
InitAtResolve(docs) ==
    /\ script = "run_magicpod"
    /\ env = [v \in Range(RunRequiredVars) |-> Val(<<"x">>)]
    /\ pc = "resolve"
    /\ http = 2
    /\ raised_at = ""
    /\ exc = ""
    /\ batch_run_number \in BatchNumbers
    /\ wait_time = 0
    /\ last_status = Str("succeeded")
    /\ result = FirstSnap
    /\ fetches = 1
    /\ last_fetch = "terminal"
    /\ saw_error = FALSE
    /\ term_snap = FirstSnap
    /\ timed_out = FALSE
    /\ status_log = [printed |-> TRUE, line |-> Str("succeeded")]
    /\ seen_status = Str("succeeded")
    /\ dump_len = 0
    /\ testplan \in docs
    /\ run_id = NoMatch
    /\ test_results = Unbound
    /\ idx = 0
    /\ success_count = 0
    /\ error_count = 0
    /\ posted = <<>>
    /\ sent = <<>>
    /\ handled = <<>>
    /\ key_order = <<>>
    /\ prep = PrepInit
    /\ dl = DlInit

InitResolver == InitAtResolve(Docs(MaxEntries, MaxRuns))

NextResolver == Resolve

SpecResolver == InitResolver /\ [][NextResolver]_vars

\* documents without a run id, of growing size: an array of n numbers, alone
\* or as the only field of an object
Fives(n) == Arr([i \in 1..n |-> Num(5)])

LongDocs(n) == {Fives(k) : k \in 0..n}
                 \cup {Obj([foo |-> Fives(k)]) : k \in 0..n}

\* strings with characters that repr or json.dumps escape
SpecialStrings == {"a\"b", "a\\b", "a\nb", "a\tb", "a\fb", "a\rb", "a'b",
                   "a'\"b'", "a\"b\"c", "é", "ü", "a" \o Backspace \o "b",
                   "a" \o VerticalTab \o "b", "a" \o NextLine \o "b",
                   "a" \o NoBreakSpace \o "b", Backtick}

\* documents holding such a string as a value, as a key, as an item or as the
\* whole document, and one whose repr is pushed over the limit by an escape
StringDocs ==
    {Obj([foo |-> Str(s)]) : s \in SpecialStrings}
      \cup {Obj([k \in {s} |-> Num(1)]) : s \in SpecialStrings}
      \cup {Arr(<<Str(s)>>) : s \in SpecialStrings}
      \cup {Str(s) : s \in SpecialStrings}
      \cup {Arr(<<Str(s)>> \o [i \in 1..((dump_limit - 7) \div 3) |-> Num(5)]) :
                s \in {"a\\b", "a\rb", "a" \o Backspace \o "b"}}

InitDump == InitAtResolve(LongDocs(MaxDumpItems) \cup StringDocs)

SpecDump == InitDump /\ [][NextResolver]_vars

----------------------------------------------------------------------------
(* Claims about the poll loop of run_magicpod_tests *)

PollEnded ==
    /\ script = "run_magicpod"
    /\ \/ pc \in {"load_plan", "resolve", "read_results", "report", "done"}
       \/ pc = "raised" /\ raised_at \in {"load_plan", "resolve",
                                          "read_results"}

\* C1: once a fetch made while wait_time < max_wait_time returns a status in
\* {succeeded, failed, aborted}, the loop has stopped at that fetch, no further
\* get_test_result call is made, and result is exactly that snapshot from then on.
C1_FirstTerminalStops ==
    /\ [](term_snap # Unbound => (PollEnded /\ result = term_snap))
    /\ [][term_snap # Unbound => (fetches' = fetches /\ result' = result)]_vars

C1_Witness ==
    /\ pc = "done"
    /\ term_snap # Unbound
    /\ fetches > 2
    /\ saw_error
    /\ result = term_snap

CeilDiv(a, b) == (a + b - 1) \div b

\* every get_test_result call so far returned an object with a non-terminal
\* status (or none)
OnlyNonTerminal == term_snap = Unbound /\ ~saw_error

\* C2: if every fetch returns a non-terminal status until the deadline, the
\* loop ends with the timeout message after ceil(max_wait_time / poll_interval)
\* = 60 fetches.
C2_TimeoutAfterCeilFetches ==
    (PollEnded /\ OnlyNonTerminal) =>
        (timed_out /\ fetches = CeilDiv(max_wait_time, poll_interval)
                   /\ fetches = 60)

C2_Witness ==
    /\ PollEnded
    /\ OnlyNonTerminal
    /\ timed_out
    /\ fetches = 60

\* the step is a get_test_result call that raised, or whose body has no status
\* to read
FetchFailedStep == fetches' = fetches + 1 /\ last_fetch' \in {"error", "badshape"}

\* C3: a failed get_test_result call never ends the poll loop and never
\* propagates: the script stays in the loop, wait_time advances by
\* poll_interval, and while wait_time < max_wait_time the next step is another
\* fetch.
C3_FetchErrorRetried ==
    /\ [][FetchFailedStep =>
            /\ pc' = "poll"
            /\ raised_at' = ""
            /\ wait_time' = wait_time + poll_interval]_vars
    /\ []((pc = "poll" /\ wait_time < max_wait_time)
            => (ENABLED PollFetch /\ ~ENABLED PollTimeout))

C3_Witness ==
    /\ pc = "poll"
    /\ last_fetch = "nonterminal"
    /\ saw_error
    /\ fetches > 2
    /\ wait_time = fetches * poll_interval

\* C4: after a timeout the run does not abort on the way to reporting: it
\* never fails while reading the test_results of the last-seen snapshot.
C4_TimeoutProceeds ==
    ~(timed_out /\ pc = "raised" /\ raised_at = "read_results"
        /\ exc \in {"UnboundLocalError", "AttributeError"})

----------------------------------------------------------------------------
(* Claims about get_run_id_from_testplan *)

Resolved == script = "run_magicpod" /\ testplan # Unbound /\ pc # "resolve"

\* the entry is an object whose 'runs' is a non-empty array
HasRuns(entry) ==
    /\ entry.jtype = "obj"
    /\ "runs" \in DOMAIN entry.jval
    /\ entry.jval.runs.jtype = "arr"
    /\ entry.jval.runs.jval # <<>>

\* the document is an object whose 'entries' is an array
HasEntriesArray(d) ==
    d.jtype = "obj" /\ "entries" \in DOMAIN d.jval /\ d.jval.entries.jtype = "arr"

\* the position of the first entry with a non-empty 'runs'
FirstWithRuns(es) ==
    CHOOSE i \in 1..Len(es) : HasRuns(es[i]) /\ \A j \in 1..(i - 1) : ~HasRuns(es[j])

\* a non-empty 'entries' array of objects, one of them with a non-empty 'runs'
\* array
EntriesCase(d) ==
    /\ HasEntriesArray(d)
    /\ d.jval.entries.jval # <<>>
    /\ \A i \in 1..Len(d.jval.entries.jval) : d.jval.entries.jval[i].jtype = "obj"
    /\ \E i \in 1..Len(d.jval.entries.jval) : HasRuns(d.jval.entries.jval[i])

\* C5: for an object whose 'entries' is a non-empty array of objects, at least
\* one with a non-empty 'runs' array, the resolver returns the 'id' of the
\* first run of the first such entry, also when the object has 'id' and 'name'
\* itself. An earlier entry whose 'runs' is truthy and not an array, and a
\* first run without an 'id', make line 94 raise.
C5_EntriesFirst ==
    (Resolved /\ EntriesCase(testplan)) =>
        LET es == testplan.jval.entries.jval
            first == es[FirstWithRuns(es)].jval.runs.jval[1]
        IN  /\ run_id.kind = "return"
            /\ IsDict(first)
            /\ HasKey(first, "id")
            /\ run_id.value = first.jval.id

\* the entries path yields no run: no 'entries' key, an empty 'entries', or
\* an 'entries' array with no entry that has a non-empty 'runs'
NoRunInEntries(d) ==
    \/ "entries" \notin DOMAIN d.jval
    \/ /\ d.jval.entries.jtype = "arr"
       /\ \A i \in 1..Len(d.jval.entries.jval) : ~HasRuns(d.jval.entries.jval[i])

\* C6: an object with 'id' and 'name' for which the entries path yields no run
\* resolves to its own 'id'.
C6_FlatIdFallback ==
    (Resolved /\ testplan.jtype = "obj" /\ {"id", "name"} \subseteq DOMAIN testplan.jval
        /\ NoRunInEntries(testplan))
    => run_id = Return(testplan.jval.id)

\* C7: a document in which neither shape matches (a non-object, or an object
\* with no run in its entries that lacks 'id' or 'name') fails with ValueError.
C7_NoShapeValueError ==
    (Resolved /\ (testplan.jtype # "obj"
                  \/ /\ NoRunInEntries(testplan)
                     /\ ~({"id", "name"} \subseteq DOMAIN testplan.jval)))
    => run_id = Raise("ValueError")

\* C8: the resolver never fails with anything but the 'identifier not found'
\* ValueError, and a document with 'id' and 'name' never fails at all.
C8_OnlyNotFound ==
    Resolved =>
        /\ run_id.kind = "raise" => run_id.error = "ValueError"
        /\ (testplan.jtype = "obj" /\ {"id", "name"} \subseteq DOMAIN testplan.jval)
              => run_id.kind = "return"

----------------------------------------------------------------------------
(* Claims about the reporting loop and the configuration check *)

\* C9: in the reporting loop every element of test_results is handled exactly
\* once, in order, and counted in exactly one of success_count and error_count;
\* the two counters add up to the number of items handled so far and to
\* len(test_results) at the end; no item failure leaves the loop.
C9_ReportIsolation ==
    /\ []((script = "run_magicpod" /\ pc \in {"report", "done"}) =>
            /\ success_count + error_count = idx
            /\ handled = [k \in 1..idx |-> k]
            /\ idx <= Len(ItemsOf(test_results, key_order))
            /\ Len(posted) = success_count
            /\ pc = "done" => idx = Len(ItemsOf(test_results, key_order)))
    /\ [][pc = "report" =>
            /\ pc' \in {"report", "done"}
            /\ idx' # idx =>
                 /\ idx' = idx + 1
                 /\ \/ success_count' = success_count + 1
                       /\ error_count' = error_count
                    \/ success_count' = success_count
                       /\ error_count' = error_count + 1]_vars

C9_Witness ==
    /\ script = "run_magicpod"
    /\ pc = "done"
    /\ Len(ItemsOf(test_results, key_order)) = MaxResults
    /\ error_count = MaxResults
    /\ success_count = 0
    /\ \E k \in 1..MaxResults : ItemsOf(test_results, key_order)[k].jtype = "obj"

\* the integer literals among the values of TESTRAIL_PROJECT_ID
IntegerValues == {Val(<<"7">>), Val(<<"1", "2">>), Val(<<" ", "7", " ">>),
                  Val(<<"-", "3">>), Val(<<"7", "\n">>), Val(<<"\t", "7">>),
                  Val(<<" ", "7", "\n">>), Val(<<"1", "_", "0">>),
                  Val(<<"+", "0", "7">>), Val(<<VerticalTab, "7">>),
                  Val(<<"7", VerticalTab>>), Val(<<"7", NoBreakSpace>>),
                  Val(<<NextLine, "7", "\r">>)}

RequiredOf(s) ==
    CASE s = "run_magicpod" -> Range(RunRequiredVars)
      [] s = "testrail_prepare" -> Range(PrepRequiredVars)
      [] s = "download_magicpod_client" -> Range(DlRequiredVars)

\* a required variable is unset or empty, or the project id is not an integer
BadConfig ==
    \/ \E v \in RequiredOf(script) : env[v] \in {Unset, Val(<<>>)}
    \/ script = "testrail_prepare" /\ env["TESTRAIL_PROJECT_ID"] \notin IntegerValues

\* C10: with a required configuration value missing or empty (or a
\* non-integer TESTRAIL_PROJECT_ID) each script fails before any HTTP request.
C10_ConfigFailsFast ==
    BadConfig =>
        /\ http = 0
        /\ pc \in {"validate", "raised"}
        /\ pc = "raised" => (raised_at = "config" /\ exc = "ValueError")

C10_Witness ==
    /\ script = "testrail_prepare"
    /\ pc = "raised"
    /\ raised_at = "config"
    /\ http = 0
    /\ \A v \in RequiredOf(script) : env[v] \notin {Unset, Val(<<>>)}

----------------------------------------------------------------------------
(* The status lines of the poll loop *)

FetchStep == fetches' = fetches + 1

\* the call returned an object, from which a status was read
FetchSucceeded(kind) == kind \in {"terminal", "nonterminal"}

\* C11: a status line is emitted for a successful fetch exactly when its
\* status differs from the status of the previous successful fetch (or there
\* was none), so no two consecutive status lines carry the same status, and a
\* failed fetch emits no status line and leaves last_status as it was.
\* last_status starts as None (line 153), so a first successful fetch whose
\* status is JSON null compares equal on line 163 and prints no line.
C11_OnlyStatusChangesLogged ==
    [][FetchStep =>
          /\ FetchSucceeded(last_fetch') =>
                /\ status_log'.printed <=> (seen_status' # seen_status)
                /\ status_log'.printed => status_log'.line = seen_status'
          /\ ~FetchSucceeded(last_fetch') =>
                /\ ~status_log'.printed
                /\ last_status' = last_status
          /\ status_log'.printed => status_log'.line # status_log.line]_vars

----------------------------------------------------------------------------
(* The diagnostic dump *)

\* C12: when get_run_id_from_testplan finds no run id, the text it dumps is
\* never longer than the truncation size, 1000 characters plus the '...'
\* marker, whatever the document.
C12_DumpBounded ==
    (pc = "raised" /\ raised_at = "resolve" /\ exc = "ValueError")
        => dump_len <= dump_limit + 3

----------------------------------------------------------------------------
(* The order of the run *)

\* the position of a step in start job, poll, load plan, resolve, report
Stage(p) ==
    CASE p = "validate" -> 0
      [] p = "start_job" -> 1
      [] p = "poll" -> 2
      [] p = "load_plan" -> 3
      [] p = "resolve" -> 4
      [] p = "read_results" -> 5
      [] p = "report" -> 6
      [] p = "done" -> 7
      [] OTHER -> 0 - 1

\* the requests made before reporting: the start of the job and the fetches
RequestsBeforeReport == 1 + fetches

    /\ batch_run_number = 102

----------------------------------------------------------------------------
(* Rate limiting in testrail_prepare.py *)

\* C14: a TestRail request of prepare_testplan answered with HTTP 429 is
\* repeated after 30 seconds, so the script does not end as a failure on the
\* one 429 it has received.
C14_RateLimitRetried ==
    (script = "testrail_prepare" /\ prep.http_status = 429)
        => (pc # "raised" /\ prep.slept = rate_limit_sleep)

----------------------------------------------------------------------------
(* Termination of the poll loop *)

MaxFetches == max_wait_time \div poll_interval

\* C15: the poll loop ends whatever the fetches return. Every iteration that
\* does not leave the loop, on a status that is not terminal or on a failed
\* fetch, adds exactly poll_interval to wait_time; an iteration is always
\* possible while the script is in the loop; no more than
\* max_wait_time / poll_interval = 60 fetches are made; and the loop is left
\* either on a terminal status with wait_time below max_wait_time and no
\* timeout message, or at wait_time = max_wait_time with no terminal status
\* seen and the timeout message printed.
C15_PollLoopTerminates ==
    /\ [](script = "run_magicpod" =>
            /\ fetches <= MaxFetches
            /\ MaxFetches = 60
            /\ wait_time <= max_wait_time
            /\ pc = "poll" => ENABLED (PollFetch \/ PollTimeout))
    /\ [][(script = "run_magicpod" /\ pc = "poll") =>
            \/ PollEnded'
            \/ /\ pc' = "poll"
               /\ last_fetch' # "terminal"
               /\ fetches' = fetches + 1
               /\ wait_time' = wait_time + poll_interval]_vars
    /\ [](PollEnded =>
            \/ term_snap # Unbound /\ wait_time < max_wait_time /\ ~timed_out
            \/ term_snap = Unbound /\ wait_time = max_wait_time /\ timed_out)

\* the loop was left at the deadline after 60 fetches, some of which failed
\* and some of which returned a status that is not terminal
C15_Witness ==
    /\ PollEnded
    /\ timed_out
    /\ fetches = MaxFetches
    /\ saw_error
    /\ seen_status # Unbound
    /\ wait_time = max_wait_time

====
